---------------------------- MODULE Spec2Model ----------------------------
(***************************************************************************)
(* TimeDeltaFotos: the two duration formatters                             *)
(*   time_difference_output     (timedeltagpt.py)                          *)
(*   calculate_time_difference  (time_since.py)                            *)
(* and the osxphotos template callback time_since (time_since.py).         *)
(*                                                                         *)
(* A timestamp is a record of its calendar fields, at a resolution of one  *)
(* second, in one fixed time zone.  The strings the functions return are   *)
(* built as the f-strings build them (ToString and \o).  A call either     *)
(* returns a string or raises an exception; both are recorded.             *)
(***************************************************************************)
EXTENDS Integers, Sequences, FiniteSets, TLC

VARIABLES start_date, end_date, language, args, out_tdo, out_ctd, out_ts

vars == <<start_date, end_date, language, args, out_tdo, out_ctd, out_ts>>

---------------------------------------------------------------------------
(* datetime: proleptic Gregorian calendar arithmetic *)

DT(y, mo, d, h, mi, s) ==
    [year |-> y, month |-> mo, day |-> d, hour |-> h, minute |-> mi, second |-> s]

IsLeap(y) == (y % 4 = 0) /\ ((y % 100 # 0) \/ (y % 400 = 0))

DaysInMonth(y, mo) ==
    IF mo = 2 THEN (IF IsLeap(y) THEN 29 ELSE 28)
    ELSE IF mo \in {4, 6, 9, 11} THEN 30 ELSE 31

DaysBeforeYear(y) ==
    LET p == y - 1 IN p * 365 + (p \div 4) - (p \div 100) + (p \div 400)

RECURSIVE DaysBeforeMonth(_, _)
DaysBeforeMonth(y, mo) ==
    IF mo = 1 THEN 0 ELSE DaysBeforeMonth(y, mo - 1) + DaysInMonth(y, mo - 1)

\* datetime.toordinal(): the day number of the date
ToOrdinal(dt) == DaysBeforeYear(dt.year) + DaysBeforeMonth(dt.year, dt.month) + dt.day

\* the second of the day of a timestamp
SecondOfDay(dt) == dt.hour * 3600 + dt.minute * 60 + dt.second

\* (end_date - start_date).total_seconds(): a timedelta holds days and seconds
total_seconds_between(start, end) ==
    (ToOrdinal(end) - ToOrdinal(start)) * 86400 + (SecondOfDay(end) - SecondOfDay(start))

\* variant: the clock time is kept
midnight_raw(dt) == dt
\* dt.replace(hour=0, minute=0, second=0, microsecond=0)
midnight(dt) == [dt EXCEPT !.hour = 0, !.minute = 0, !.second = 0]

\* dt.replace(day=1, hour=0, minute=0, second=0, microsecond=0)
first_of_month(dt) == [dt EXCEPT !.day = 1, !.hour = 0, !.minute = 0, !.second = 0]

\* variant: the arguments are taken in the order given
ordered_noswap(start, end) == <<start, end>>
\* if start_date > end_date: start_date, end_date = end_date, start_date
ordered(start, end) ==
    IF total_seconds_between(end, start) > 0 THEN <<end, start>> ELSE <<start, end>>

---------------------------------------------------------------------------
(* the translation table and the phrase builder, the same in both files *)

translations ==
    [de |-> [and |-> "und",
             minute_singular |-> "Minute", minute_plural |-> "Minuten",
             hour_singular |-> "Stunde",   hour_plural |-> "Stunden",
             day_singular |-> "Tag",       day_plural |-> "Tage",
             week_singular |-> "Woche",    week_plural |-> "Wochen",
             month_singular |-> "Monat",   month_plural |-> "Monate",
             year_singular |-> "Jahr",     year_plural |-> "Jahre"],
     en |-> [and |-> "and",
             minute_singular |-> "minute", minute_plural |-> "minutes",
             hour_singular |-> "hour",     hour_plural |-> "hours",
             day_singular |-> "day",       day_plural |-> "days",
             week_singular |-> "week",     week_plural |-> "weeks",
             month_singular |-> "month",   month_plural |-> "months",
             year_singular |-> "year",     year_plural |-> "years"]]

\* variant: the singular noun for 0 as well
pluralize_le1(value, singular, plural) ==
    IF value <= 1 THEN ToString(value) \o " " \o singular
    ELSE ToString(value) \o " " \o plural
\* f"{value} {singular}" if value == 1 else f"{value} {plural}"
pluralize(value, singular, plural) ==
    IF value = 1 THEN ToString(value) \o " " \o singular
    ELSE ToString(value) \o " " \o plural

\* f"{a} {lang['and']} {b}"
joined(a, lang, b) == a \o " " \o lang.and \o " " \o b

(* the outcome of a call *)
Pending == [kind |-> "pending", exc |-> "", value |-> ""]
Return(s) == [kind |-> "return", exc |-> "", value |-> s]
Raise(e, msg) == [kind |-> "raise", exc |-> e, value |-> msg]

---------------------------------------------------------------------------
(* timedeltagpt.py: time_difference_output *)

tdo_minutes(total_seconds, lang) ==
    LET minutes == total_seconds \div 60
    IN  pluralize(minutes, lang.minute_singular, lang.minute_plural)

\* variant: the remaining minutes are reported even when 0
tdo_hours_always(total_seconds, lang) ==
    LET hours == total_seconds \div 3600
        remaining_minutes == (total_seconds % 3600) \div 60
    IN  joined(pluralize(hours, lang.hour_singular, lang.hour_plural), lang,
               pluralize(remaining_minutes, lang.minute_singular, lang.minute_plural))
tdo_hours(total_seconds, lang) ==
    LET hours == total_seconds \div 3600
        remaining_minutes == (total_seconds % 3600) \div 60
    IN  IF remaining_minutes > 0
        THEN joined(pluralize(hours, lang.hour_singular, lang.hour_plural), lang,
                    pluralize(remaining_minutes, lang.minute_singular, lang.minute_plural))
        ELSE pluralize(hours, lang.hour_singular, lang.hour_plural)

tdo_days(total_seconds, lang) ==
    LET days == total_seconds \div 86400
        remaining_hours == (total_seconds % 86400) \div 3600
    IN  IF remaining_hours > 0
        THEN joined(pluralize(days, lang.day_singular, lang.day_plural), lang,
                    pluralize(remaining_hours, lang.hour_singular, lang.hour_plural))
        ELSE pluralize(days, lang.day_singular, lang.day_plural)

\* variant: the remaining days are dropped
tdo_weeks_only(total_seconds, lang) ==
    pluralize(total_seconds \div 604800, lang.week_singular, lang.week_plural)
tdo_weeks(total_seconds, lang) ==
    LET weeks == total_seconds \div 604800
        remaining_days == (total_seconds % 604800) \div 86400
    IN  IF remaining_days > 0
        THEN joined(pluralize(weeks, lang.week_singular, lang.week_plural), lang,
                    pluralize(remaining_days, lang.day_singular, lang.day_plural))
        ELSE pluralize(weeks, lang.week_singular, lang.week_plural)

\* variant: a month of 30 days
tdo_months_30day(total_seconds, lang) ==
    LET months == total_seconds \div 2592000
        remaining_weeks == (total_seconds % 2592000) \div 604800
    IN  IF remaining_weeks > 0
        THEN joined(pluralize(months, lang.month_singular, lang.month_plural), lang,
                    pluralize(remaining_weeks, lang.week_singular, lang.week_plural))
        ELSE pluralize(months, lang.month_singular, lang.month_plural)
tdo_months(total_seconds, lang) ==
    LET months == total_seconds \div 2628000
        remaining_weeks == (total_seconds % 2628000) \div 604800
    IN  IF remaining_weeks > 0
        THEN joined(pluralize(months, lang.month_singular, lang.month_plural), lang,
                    pluralize(remaining_weeks, lang.week_singular, lang.week_plural))
        ELSE pluralize(months, lang.month_singular, lang.month_plural)

tdo_years(total_seconds, lang) ==
    LET years == total_seconds \div 31536000
        remaining_seconds == total_seconds % 31536000
        months == remaining_seconds \div 2628000
        years_str == pluralize(years, lang.year_singular, lang.year_plural)
        months_str == pluralize(months, lang.month_singular, lang.month_plural)
    IN  IF months = 0 THEN years_str ELSE joined(years_str, lang, months_str)

\* lines 73-107: a week or more, counted in whole days from midnight
tdo_from_midnight(start, end, lang) ==
    LET total_seconds == total_seconds_between(midnight(start), midnight(end))
    IN  IF total_seconds < 2628000 THEN tdo_weeks(total_seconds, lang)
        ELSE IF total_seconds < 31536000 THEN tdo_months(total_seconds, lang)
        ELSE tdo_years(total_seconds, lang)

\* variant: the thresholds of the first three buckets are inclusive
time_difference_output_le(start, end, lang_code) ==
    LET se == ordered(start, end)
        total_seconds == total_seconds_between(se[1], se[2])
    IN  IF lang_code \notin DOMAIN translations THEN Raise("KeyError", lang_code)
        ELSE LET lang == translations[lang_code]
             IN  IF total_seconds <= 3600 THEN Return(tdo_minutes(total_seconds, lang))
                 ELSE IF total_seconds <= 86400 THEN Return(tdo_hours(total_seconds, lang))
                 ELSE IF total_seconds <= 604800 THEN Return(tdo_days(total_seconds, lang))
                 ELSE Return(tdo_from_midnight(se[1], se[2], lang))
\* translations[language] raises KeyError for a code that is no key
time_difference_output(start, end, lang_code) ==
    LET se == ordered(start, end)
        total_seconds == total_seconds_between(se[1], se[2])
    IN  IF lang_code \notin DOMAIN translations THEN Raise("KeyError", lang_code)
        ELSE LET lang == translations[lang_code]
             IN  IF total_seconds < 3600 THEN Return(tdo_minutes(total_seconds, lang))
                 ELSE IF total_seconds < 86400 THEN Return(tdo_hours(total_seconds, lang))
                 ELSE IF total_seconds < 604800 THEN Return(tdo_days(total_seconds, lang))
                 ELSE Return(tdo_from_midnight(se[1], se[2], lang))

---------------------------------------------------------------------------
(* time_since.py: calculate_time_difference and the callback time_since *)

ctd_minutes(total_seconds, lang) ==
    pluralize(total_seconds \div 60, lang.minute_singular, lang.minute_plural)

ctd_hours(total_seconds, lang) ==
    pluralize(total_seconds \div 3600, lang.hour_singular, lang.hour_plural)

ctd_days(start, end, lang) ==
    LET total_seconds == total_seconds_between(midnight(start), midnight(end))
    IN  pluralize(total_seconds \div 86400, lang.day_singular, lang.day_plural)

ctd_weeks(start, end, lang) ==
    LET total_seconds == total_seconds_between(midnight(start), midnight(end))
    IN  pluralize(total_seconds \div 604800, lang.week_singular, lang.week_plural)

ctd_months(start, end, lang) ==
    LET total_seconds == total_seconds_between(first_of_month(start), first_of_month(end))
    IN  pluralize(total_seconds \div 2628000, lang.month_singular, lang.month_plural)

ctd_years(start, end, lang) ==
    LET total_seconds == total_seconds_between(first_of_month(start), first_of_month(end))
        years == total_seconds \div 31536000
        remaining_seconds == total_seconds % 31536000
        months == remaining_seconds \div 2628000
        years_str == pluralize(years, lang.year_singular, lang.year_plural)
        months_str == pluralize(months, lang.month_singular, lang.month_plural)
    IN  IF months > 0 THEN joined(years_str, lang, months_str) ELSE years_str

\* translations[language] raises KeyError for a code that is no key
calculate_time_difference(start, end, lang_code) ==
    LET se == ordered(start, end)
        total_seconds == total_seconds_between(se[1], se[2])
    IN  IF lang_code \notin DOMAIN translations THEN Raise("KeyError", lang_code)
        ELSE LET lang == translations[lang_code]
             IN  IF total_seconds < 3600 THEN Return(ctd_minutes(total_seconds, lang))
                 ELSE IF total_seconds < 86400 THEN Return(ctd_hours(total_seconds, lang))
                 ELSE IF total_seconds < 604800 THEN Return(ctd_days(se[1], se[2], lang))
                 ELSE IF total_seconds < 2628000 THEN Return(ctd_weeks(se[1], se[2], lang))
                 ELSE IF total_seconds < 31536000 THEN Return(ctd_months(se[1], se[2], lang))
                 ELSE Return(ctd_years(se[1], se[2], lang))

(* The callback's argument string, as its text decomposes:                 *)
(*   present  FALSE for None or the empty string                           *)
(*   parses   whether the text before the first comma matches              *)
(*            "%Y-%m-%d %H:%M" and names a real date                       *)
(*   date     the timestamp that text names when it parses                 *)
(*   rest     the comma-separated fields after the first one               *)
FormatError ==
    "time_since function requires an argument in the form of a date string in the format YYYY-MM-DD HH:MM"

\* date_str, language = args.split(",") if "," in args else (args, "en")
split_language(a) == IF Len(a.rest) = 0 THEN "en" ELSE a.rest[1]

\* variant: the language code is not checked
time_since_unchecked(photo_date, a) ==
    IF ~a.present THEN Raise("ValueError", FormatError)
    ELSE IF Len(a.rest) > 1 THEN Raise("ValueError", "too many values to unpack (expected 2)")
    ELSE IF ~a.parses THEN Raise("ValueError", FormatError)
    ELSE calculate_time_difference(photo_date, a.date, split_language(a))
\* datetime_naive_to_local leaves the fields as they are: all timestamps are in
\* the one local time zone
time_since(photo_date, a) ==
    IF ~a.present THEN Raise("ValueError", FormatError)
    ELSE IF Len(a.rest) > 1 THEN Raise("ValueError", "too many values to unpack (expected 2)")
    ELSE IF ~a.parses THEN Raise("ValueError", FormatError)
    ELSE IF split_language(a) \notin DOMAIN translations
         THEN Raise("ValueError", "Unsupported language: " \o split_language(a))
    ELSE calculate_time_difference(photo_date, a.date, split_language(a))

---------------------------------------------------------------------------
(* The calls.  Every call is a one-shot computation on its arguments: the   *)
(* initial state fixes the arguments, and each function is applied once.   *)

\* the calendar years the timestamps are drawn from, 2020 (a leap year) onwards
YearSpan == 3
Years == 2020 .. (2020 + YearSpan - 1)

\* a day that exists in its month
IsDate(dt) == dt.day <= DaysInMonth(dt.year, dt.month)

\* the real timestamps among the given field values
Stamps(Y, M, D, H, Mi, S) ==
    {dt \in {DT(y, mo, d, h, mi, s) : y \in Y, mo \in M, d \in D,
                                      h \in H, mi \in Mi, s \in S} : IsDate(dt)}

\* within one day, to the second
IntradayStamps ==
    Stamps({2020}, {1}, {1}, {0, 1, 23}, {0, 1, 59}, {0, 30})

\* within nine days, to the minute
WeekStamps ==
    Stamps({2020}, {1}, {1, 2, 7, 8}, {0, 1, 13, 23}, {0, 59}, {0})

\* across months and years
CalendarStamps ==
    Stamps(Years, {1, 2, 3, 12}, {1, 15, 31}, {0, 10, 14}, {0}, {0})

\* the examples of the documentation
ExamplePairs ==
    {<<DT(2020, 1, 1, 14, 0, 0), DT(2023, 10, 1, 16, 45, 0)>>,
     <<DT(2020, 1, 1, 14, 30, 0), DT(2023, 10, 1, 16, 45, 0)>>,
     <<DT(2020, 1, 1, 14, 0, 0), DT(2020, 1, 15, 9, 0, 0)>>}

Pairs ==
    (IntradayStamps \X IntradayStamps) \cup (WeekStamps \X WeekStamps)
        \cup (CalendarStamps \X CalendarStamps)
        \cup ExamplePairs \cup {<<p[2], p[1]>> : p \in ExamplePairs}

Languages == {"de", "en"}
OtherLanguages == {"fr", ""}

\* the text "YYYY-MM-DD HH:MM" of a timestamp names it to the minute
DateArg(dt) == [dt EXCEPT !.second = 0]

Args(present, parses, date, rest) ==
    [present |-> present, parses |-> parses, date |-> date, rest |-> rest]

\* the calls of the callback whose argument string takes every shape
AdapterPairs == {p \in ExamplePairs \cup (WeekStamps \X WeekStamps) :
                    p[1].minute = 0 /\ p[2].minute = 0 /\ p[1].hour \in {0, 14} /\ p[2].hour \in {0, 9, 16}}

\* None or "", a date alone (well-formed or not), a date and a language code (the
\* date well-formed or not), and a string with two commas
AdapterArgs(date, lang_code) ==
    {Args(FALSE, FALSE, date, <<>>),
     Args(TRUE, TRUE, date, <<>>),
     Args(TRUE, FALSE, date, <<>>),
     Args(TRUE, TRUE, date, <<lang_code>>),
     Args(TRUE, FALSE, date, <<lang_code>>),
     Args(TRUE, TRUE, date, <<lang_code, lang_code>>)}

Init ==
    /\ \/ \E p \in Pairs, l \in Languages :
             /\ start_date = p[1]
             /\ end_date = p[2]
             /\ language = l
             /\ args = Args(TRUE, TRUE, DateArg(p[2]), <<l>>)
       \/ \E p \in AdapterPairs, l \in Languages \cup OtherLanguages :
             /\ start_date = p[1]
             /\ end_date = p[2]
             /\ language = l
             /\ args \in AdapterArgs(DateArg(p[2]), l)
    /\ out_tdo = Pending
    /\ out_ctd = Pending
    /\ out_ts = Pending

\* time_difference_output(start_date, end_date, language)
CallTimeDifferenceOutput ==
    /\ out_tdo = Pending
    /\ out_tdo' = time_difference_output(start_date, end_date, language)
    /\ UNCHANGED <<start_date, end_date, language, args, out_ctd, out_ts>>

\* calculate_time_difference(start_date, end_date, language)
CallCalculateTimeDifference ==
    /\ out_ctd = Pending
    /\ out_ctd' = calculate_time_difference(start_date, end_date, language)
    /\ UNCHANGED <<start_date, end_date, language, args, out_tdo, out_ts>>

\* time_since(photo, options, args), photo.date being start_date
CallTimeSince ==
    /\ out_ts = Pending
    /\ out_ts' = time_since(start_date, args)
    /\ UNCHANGED <<start_date, end_date, language, args, out_tdo, out_ctd>>

Next == CallTimeDifferenceOutput \/ CallCalculateTimeDifference \/ CallTimeSince

Spec == Init /\ [][Next]_vars

---------------------------------------------------------------------------
(* What the properties speak of *)

\* the raw elapsed time of the call's two timestamps, in seconds
Elapsed ==
    LET d == total_seconds_between(start_date, end_date) IN IF d < 0 THEN 0 - d ELSE d

Earlier == IF total_seconds_between(start_date, end_date) < 0 THEN end_date ELSE start_date
Later == IF total_seconds_between(start_date, end_date) < 0 THEN start_date ELSE end_date

\* the number of calendar days between the two dates
DateDiffDays == ToOrdinal(Later) - ToOrdinal(Earlier)

Returned(out) == out.kind = "return"
Supported == language \in DOMAIN translations

Units == {"minute", "hour", "day", "week", "month", "year"}

\* the largest count of a phrase the properties enumerate
MaxCount == 60

\* "<count> <noun>": the singular noun exactly when the count is 1
Phrase(n, u, l) ==
    ToString(n) \o " " \o
        (IF n = 1 THEN translations[l][u \o "_singular"] ELSE translations[l][u \o "_plural"])

Both(p, l, q) == p \o " " \o translations[l]["and"] \o " " \o q

\* a primary phrase alone, or followed by the conjunction and a secondary phrase
Breakdowns(l, u1, N1, u2, N2) ==
    {Phrase(n, u1, l) : n \in N1}
        \cup {Both(Phrase(n, u1, l), l, Phrase(k, u2, l)) : n \in N1, k \in N2}

\* every single unit phrase, and every string of two unit phrases
OnePhrase ==
    [l \in DOMAIN translations |-> {Phrase(n, u, l) : n \in 0 .. MaxCount, u \in Units}]
TwoPhrases ==
    [l \in DOMAIN translations |->
        {Both(Phrase(n, u1, l), l, Phrase(k, u2, l)) :
            n \in 0 .. MaxCount, u1 \in Units, k \in 0 .. MaxCount, u2 \in Units}]

WellFormed(s, l) == s \in OnePhrase[l] \/ s \in TwoPhrases[l]

\* the strings whose primary unit is u
WithPrimary(l, u) ==
    {Phrase(n, u, l) : n \in 0 .. MaxCount}
        \cup {Both(Phrase(n, u, l), l, Phrase(k, u2, l)) :
                 n \in 0 .. MaxCount, k \in 0 .. MaxCount, u2 \in Units}

\* the strings whose counts lie in the natural range of their bucket
NaturalRange ==
    [l \in DOMAIN translations |->
        Breakdowns(l, "minute", 0 .. 59, "minute", {})
            \cup Breakdowns(l, "hour", 1 .. 23, "minute", 1 .. 59)
            \cup Breakdowns(l, "day", 1 .. 6, "hour", 1 .. 23)
            \cup Breakdowns(l, "week", 1 .. 4, "day", 1 .. 6)
            \cup Breakdowns(l, "month", 1 .. 11, "week", 1 .. 4)
            \cup Breakdowns(l, "year", 1 .. MaxCount, "month", 1 .. 11)]

---------------------------------------------------------------------------
(* C1 *)

\* C1, as stated: at an elapsed time of exactly 3600, 86400, 604800, 2628000 or
\* 31536000 seconds time_difference_output reports in the coarser bucket (hour,
\* day, week, month, year), and 59 minutes are reported as "59 minutes".
C1_NextBucketAtEveryThreshold ==
    (Returned(out_tdo) /\ Supported) =>
        /\ Elapsed = 3600 => out_tdo.value \in WithPrimary(language, "hour")
        /\ Elapsed = 86400 => out_tdo.value \in WithPrimary(language, "day")
        /\ Elapsed = 604800 => out_tdo.value \in WithPrimary(language, "week")
        /\ Elapsed = 2628000 => out_tdo.value \in WithPrimary(language, "month")
        /\ Elapsed = 31536000 => out_tdo.value \in WithPrimary(language, "year")
        /\ Elapsed = 59 * 60 => out_tdo.value = Phrase(59, "minute", language)

\* C1, amended: at exactly 3600, 86400, 604800 and 31536000 seconds the result is
\* 1 hour, 1 day, 1 week and 1 year; at exactly 2628000 seconds (30 days and 10
\* hours) it is 1 month when the two dates are 31 days apart and 4 weeks and
\* 2 days when they are 30 days apart; 59 minutes are reported as 59 minutes.
C1_Boundaries ==
    (Returned(out_tdo) /\ Supported) =>
        /\ Elapsed = 3600 => out_tdo.value = Phrase(1, "hour", language)
        /\ Elapsed = 86400 => out_tdo.value = Phrase(1, "day", language)
        /\ Elapsed = 604800 => out_tdo.value = Phrase(1, "week", language)
        /\ Elapsed = 31536000 => out_tdo.value = Phrase(1, "year", language)
        /\ Elapsed = 2628000 =>
              /\ DateDiffDays \in {30, 31}
              /\ DateDiffDays = 31 => out_tdo.value = Phrase(1, "month", language)
              /\ DateDiffDays = 30 =>
                    out_tdo.value = Both(Phrase(4, "week", language), language,
                                         Phrase(2, "day", language))
        /\ Elapsed = 59 * 60 => out_tdo.value = Phrase(59, "minute", language)

C1_Witness ==
    /\ Elapsed = 2628000
    /\ DateDiffDays = 30
    /\ language = "en"
    /\ out_tdo = Return("4 weeks and 2 days")

---------------------------------------------------------------------------
(* C2 *)

\* the calendar-field differences of the two timestamps
CalendarYears ==
    IF Later.month - Earlier.month < 0
    THEN Later.year - Earlier.year - 1 ELSE Later.year - Earlier.year
CalendarMonths ==
    IF Later.month - Earlier.month < 0
    THEN Later.month - Earlier.month + 12 ELSE Later.month - Earlier.month

CalendarYearsAndMonths ==
    IF CalendarMonths = 0 THEN Phrase(CalendarYears, "year", language)
    ELSE Both(Phrase(CalendarYears, "year", language), language,
              Phrase(CalendarMonths, "month", language))

\* C2: from one year of elapsed time on, both formatters report the calendar-field
\* differences: years = laterYear - earlierYear, months = laterMonth - earlierMonth,
\* a negative months borrowing 12 from the years, and years alone when months is 0.
C2_CalendarYearsAndMonths ==
    (Supported /\ Elapsed >= 31536000) =>
        /\ Returned(out_tdo) => out_tdo.value = CalendarYearsAndMonths
        /\ Returned(out_ctd) => out_ctd.value = CalendarYearsAndMonths

---------------------------------------------------------------------------
(* C3 *)

OnDates(y1, m1, d1, y2, m2, d2) ==
    /\ Earlier.year = y1 /\ Earlier.month = m1 /\ Earlier.day = d1
    /\ Later.year = y2 /\ Later.month = m2 /\ Later.day = d2

\* C3, as stated: from 2021-01-31 to 2021-03-01 both formatters report 1 month,
\* whatever the clock times.
C3_OneMonth ==
    (Supported /\ OnDates(2021, 1, 31, 2021, 3, 1)) =>
        /\ Returned(out_tdo) => out_tdo.value = Phrase(1, "month", language)
        /\ Returned(out_ctd) => out_ctd.value = Phrase(1, "month", language)

\* C3, amended: from 2021-01-31 to 2021-03-01 (29 days, below the month threshold
\* of 2628000 seconds) the report is in weeks, whatever the clock times:
\* time_difference_output gives 4 weeks and 1 day, calculate_time_difference 4 weeks.
C3_FourWeeks ==
    (Supported /\ OnDates(2021, 1, 31, 2021, 3, 1)) =>
        /\ Returned(out_tdo) =>
              out_tdo.value = Both(Phrase(4, "week", language), language,
                                   Phrase(1, "day", language))
        /\ Returned(out_ctd) => out_ctd.value = Phrase(4, "week", language)

C3_Witness ==
    /\ OnDates(2021, 1, 31, 2021, 3, 1)
    /\ Earlier.hour = 14 /\ Later.hour = 0
    /\ language = "en"
    /\ out_tdo = Return("4 weeks and 1 day")
    /\ out_ctd = Return("4 weeks")

---------------------------------------------------------------------------
(* C4 *)

\* the result the two-unit, floor-only policy gives below one week
FloorPolicy(E, l) ==
    IF E < 3600 THEN Phrase(E \div 60, "minute", l)
    ELSE IF E < 86400
    THEN IF (E % 3600) \div 60 # 0
         THEN Both(Phrase(E \div 3600, "hour", l), l, Phrase((E % 3600) \div 60, "minute", l))
         ELSE Phrase(E \div 3600, "hour", l)
    ELSE IF (E % 86400) \div 3600 # 0
         THEN Both(Phrase(E \div 86400, "day", l), l, Phrase((E % 86400) \div 3600, "hour", l))
         ELSE Phrase(E \div 86400, "day", l)

\* C4: below one week time_difference_output reports floor(E/60) minutes alone, or
\* floor(E/3600) hours with the remaining whole minutes when these are not 0, or
\* floor(E/86400) days with the remaining whole hours when these are not 0.
C4_FloorPolicyBelowOneWeek ==
    (Returned(out_tdo) /\ Supported /\ Elapsed < 604800) =>
        out_tdo.value = FloorPolicy(Elapsed, language)

C4_Witness ==
    /\ Elapsed = 6 * 86400 + 23 * 3600 + 59 * 60
    /\ language = "en"
    /\ out_tdo = Return("6 days and 23 hours")

---------------------------------------------------------------------------
(* C5 *)

\* the first and the last clock time of a day
ClockTimes == {<<0, 0, 0>>, <<23, 59, 59>>}

AtClock(dt, c) == [dt EXCEPT !.hour = c[1], !.minute = c[2], !.second = c[3]]

\* C5: from a raw elapsed time of one week on, the result of
\* time_difference_output is the same for every pair of timestamps on the same two
\* calendar dates whose raw elapsed time is a week or more.
C5_DatesAloneDecide ==
    (Returned(out_tdo) /\ Elapsed >= 604800) =>
        LET e == Earlier
            l == Later
        IN  \A c1 \in ClockTimes, c2 \in ClockTimes :
                total_seconds_between(AtClock(e, c1), AtClock(l, c2)) >= 604800 =>
                    time_difference_output(AtClock(e, c1), AtClock(l, c2), language) = out_tdo

C5_Witness ==
    /\ Elapsed = 2628000
    /\ Earlier.hour = 14 /\ Later.hour = 0
    /\ language = "de"
    /\ out_tdo = Return("1 Monat")

---------------------------------------------------------------------------
(* C6 *)

\* C6: each formatter gives for (a, b) what it gives for (b, a).
C6_Symmetry ==
    /\ out_tdo # Pending => out_tdo = time_difference_output(end_date, start_date, language)
    /\ out_ctd # Pending => out_ctd = calculate_time_difference(end_date, start_date, language)

C6_Witness ==
    /\ total_seconds_between(start_date, end_date) < 0
    /\ Elapsed >= 31536000
    /\ Returned(out_tdo)
    /\ Returned(out_ctd)

---------------------------------------------------------------------------
(* C7 *)

\* C7: every result of both formatters is one unit phrase, or two joined by the
\* conjunction, each "<count> <noun>" with the singular noun exactly when the count
\* is 1; a zero duration gives "0 minutes" in English and "0 Minuten" in German.
C7_Rendering ==
    /\ Returned(out_tdo) => WellFormed(out_tdo.value, language)
    /\ Returned(out_ctd) => WellFormed(out_ctd.value, language)
    /\ \A out \in {out_tdo, out_ctd} :
          (Returned(out) /\ Elapsed = 0) =>
              /\ language = "en" => out.value = "0 minutes"
              /\ language = "de" => out.value = "0 Minuten"

C7_Witness ==
    /\ language = "de"
    /\ out_tdo = Return("1 Stunde und 59 Minuten")
    /\ out_ctd = Return("1 Stunde")

---------------------------------------------------------------------------
(* C8 *)

\* the language code of the callback's argument string
HasLanguageCode == args.present /\ Len(args.rest) = 1

UnsupportedLanguage(code) == Raise("ValueError", "Unsupported language: " \o code)

\* C8, as stated: with a language code that is no key of the translations table
\* time_since raises ValueError "Unsupported language: <code>" and the two
\* formatters raise; no call returns a string; without a comma the callback
\* uses "en".
C8_UnsupportedLanguageAlways ==
    /\ (out_ts # Pending /\ HasLanguageCode /\ args.rest[1] \notin DOMAIN translations) =>
          out_ts = UnsupportedLanguage(args.rest[1])
    /\ ~Supported =>
          /\ out_tdo # Pending => out_tdo.kind = "raise"
          /\ out_ctd # Pending => out_ctd.kind = "raise"
    /\ (out_ts # Pending /\ args.present /\ args.parses /\ args.rest = <<>>) =>
          /\ Returned(out_ts)
          /\ WellFormed(out_ts.value, "en")

\* C8, amended: the callback raises the unsupported-language error when the date
\* text parses; when the date text does not parse it raises the date-format
\* ValueError, whatever the language code.  The rest is as stated.
C8_UnsupportedLanguage ==
    /\ (out_ts # Pending /\ HasLanguageCode /\ args.rest[1] \notin DOMAIN translations) =>
          /\ args.parses => out_ts = UnsupportedLanguage(args.rest[1])
          /\ ~args.parses => out_ts = Raise("ValueError", FormatError)
    /\ ~Supported =>
          /\ out_tdo # Pending => out_tdo.kind = "raise"
          /\ out_ctd # Pending => out_ctd.kind = "raise"
    /\ (out_ts # Pending /\ args.present /\ args.parses /\ args.rest = <<>>) =>
          /\ Returned(out_ts)
          /\ WellFormed(out_ts.value, "en")

C8_Witness ==
    /\ args.present /\ args.parses /\ args.rest = <<"fr">>
    /\ language = "fr"
    /\ out_ts = Raise("ValueError", "Unsupported language: fr")
    /\ out_tdo.kind = "raise"
    /\ out_ctd.kind = "raise"

---------------------------------------------------------------------------
(* C9 *)

\* C9: every result of time_difference_output has its counts in the natural range
\* of its bucket: 0..59 minutes; 1..23 hours and 1..59 minutes; 1..6 days and 1..23
\* hours; 1..4 weeks and 1..6 days; 1..11 months and 1..4 weeks; 1 or more years
\* and 1..11 months; a secondary count is never 0 and there are at most two phrases.
C9_NaturalRanges ==
    Returned(out_tdo) => out_tdo.value \in NaturalRange[language]

C9_Witness ==
    /\ DateDiffDays = 364
    /\ language = "en"
    /\ out_tdo = Return("11 months and 4 weeks")

---------------------------------------------------------------------------
(* C10 *)

\* the natural range of the bucket the raw elapsed time selects
RawBucketRange(E, l) ==
    IF E < 60 THEN {Phrase(0, "minute", l)}
    ELSE IF E < 3600 THEN {Phrase(n, "minute", l) : n \in 1 .. 59}
    ELSE IF E < 86400 THEN {Phrase(n, "hour", l) : n \in 1 .. 23}
    ELSE IF E < 604800 THEN {Phrase(n, "day", l) : n \in 1 .. 6}
    ELSE IF E < 2628000 THEN {Phrase(n, "week", l) : n \in 1 .. 4}
    ELSE IF E < 31536000 THEN {Phrase(n, "month", l) : n \in 1 .. 11}
    ELSE Breakdowns(l, "year", 1 .. MaxCount, "month", 1 .. 11)

\* C10: the primary count of calculate_time_difference is 0 only below one minute
\* and otherwise lies in the natural range of the bucket the raw elapsed seconds
\* select: never "7 days", "0 months" or "0 years and N months".
C10_RawBucketRanges ==
    Returned(out_ctd) => out_ctd.value \in RawBucketRange(Elapsed, language)

=============================================================================
